---------------------------- MODULE Spec2Model ----------------------------
(***************************************************************************)
(* diceware.py: one run of main().  The run parses its options, opens and  *)
(* reads a Diceware word list, generates a passphrase (or, with --grid, an *)
(* N x N grid of words), optionally replaces characters by special         *)
(* characters, and prints the result.                                      *)
(*                                                                         *)
(* A Python string is a sequence of one-character strings, so that         *)
(* slicing, indexing, strip() and len() are computed character by          *)
(* character.  map(None, x) and "".join(x), which turn a string into a     *)
(* list of characters and back, do not change that sequence.               *)
(***************************************************************************)
EXTENDS Naturals, Integers, Sequences, FiniteSets

\* ------------------------------------------------------------------ bounds

\* The number of words a valid list holds.  diceware.py:116 asks for
\* 6**5 = 7776; the model scales the list down and keeps the comparison.
WordListSize == 2

\* The options explored: --words in 0..MaxWords, --special in -1..MaxSpecials.
MaxWords == 2
MaxSpecials == 2

\* SystemRandom draws from the operating system's entropy.  Every outcome of
\* the first MaxEntropy draws of a run is explored; the draws after them are
\* explored for the outcome 0 only.
MaxEntropy == 5

\* The longest file explored has one line more than a valid word list.
MaxLines == WordListSize + 1

\* ------------------------------------------------- Python string helpers

Min(a, b) == IF a < b THEN a ELSE b
Max(a, b) == IF a > b THEN a ELSE b

Range(s) == {s[x] : x \in DOMAIN s}

Digits == {"0", "1", "2", "3", "4", "5", "6", "7", "8", "9"}

Whitespace == {" ", "\t", "\n", "\r"}

\* s[a:b], with Python's 0-based, clipped bounds.
Slice(s, a, b) == SubSeq(s, a + 1, Min(b, Len(s)))

\* str.isdigit(): non-empty and all decimal digits.
isdigit(s) == Len(s) > 0 /\ \A x \in DOMAIN s : s[x] \in Digits

\* str.isspace() of a one-character string.
isspace(c) == c \in Whitespace

RECURSIVE lstrip(_)
lstrip(s) == IF s # <<>> /\ isspace(Head(s)) THEN lstrip(Tail(s)) ELSE s

RECURSIVE rstrip(_)
rstrip(s) ==
    IF s # <<>> /\ isspace(s[Len(s)]) THEN rstrip(SubSeq(s, 1, Len(s) - 1)) ELSE s

\* str.strip()
strip(s) == rstrip(lstrip(s))

\* str.ljust(width): pad with spaces on the right, never truncate.
ljust(s, width) ==
    IF Len(s) >= width THEN s ELSE s \o [x \in 1..(width - Len(s)) |-> " "]

\* -------------------------------------------------------------- constants

SPECIAL_CHARS ==
    << "~", "!", "#", "$", "%", "^", "&", "*", "(", ")", "-", "=", "+", "[",
       "]", "\\", "{", "}", ":", ";", "\"", "'", "<", ">", "?", "/",
       "0", "1", "2", "3", "4", "5", "6", "7", "8", "9" >>

\* ------------------------------------------------------------ input files

\* The lines a word list file may hold.  A line ends with its newline;
\* only the last line of a file can lack one.
LineWordAb   == << "1", "1", "1", "1", "1", " ", "a", "b", "\n" >>
LineWordC    == << "1", "1", "1", "1", "2", "\t", "c", "\n" >>
LineDigits   == << "1", "1", "1", "1", "3", "\n" >>
LineBlank    == << "\n" >>
LineText     == << "a", "b", "\n" >>
LineNoSpace  == << "1", "1", "1", "1", "4", "a", "b", "\n" >>
LineCutShort == << "1", "1", "1", "1", "5" >>
LineCutDigit == << "1", "2", "3" >>

TerminatedLines ==
    {LineWordAb, LineWordC, LineDigits, LineBlank, LineText, LineNoSpace}

LineKinds == TerminatedLines \cup {LineCutShort, LineCutDigit}

Files ==
    UNION {{f \in [1..n -> LineKinds] :
               \A x \in 1..(n - 1) : f[x] \in TerminatedLines} : n \in 0..MaxLines}


\* ---------------------------------------------------------- read_word_list

\* The condition of the list comprehension, for a line of at least 6
\* characters: line[0:5].isdigit() and line[5].isspace().
KeepLine(line) == isdigit(Slice(line, 0, 5)) /\ isspace(line[6])

\* line[5] raises IndexError when the line has fewer than 6 characters; the
\* "and" evaluates it only when line[0:5].isdigit() is true.
LineRaises(line) == isdigit(Slice(line, 0, 5)) /\ Len(line) < 6

\* line[6:].strip()
WordOf(line) == strip(Slice(line, 6, Len(line)))

\* The list comprehension: the lines kept so far, the exception that ended
\* the iteration ("" for none) and the lines of the file left unread.
RECURSIVE Comprehension(_, _)
Comprehension(lines, acc) ==
    IF lines = <<>> THEN [kept |-> acc, exc |-> "", rest |-> <<>>]
    ELSE LET line == Head(lines) IN
         IF LineRaises(line)
         THEN [kept |-> acc, exc |-> "IndexError", rest |-> Tail(lines)]
         ELSE IF KeepLine(line)
              THEN Comprehension(Tail(lines), Append(acc, WordOf(line)))
              ELSE Comprehension(Tail(lines), acc)

WrongCount(list) == Len(list) # WordListSize

\* read_word_list(fobj): the comprehension, then the count check.
read_word_list(lines) ==
    LET c == Comprehension(lines, <<>>) IN
    IF c.exc = "" /\ WrongCount(c.kept) THEN [c EXCEPT !.exc = "ValueError"] ELSE c

\* ------------------------------------------------------------------ state

VARIABLES
    pc,                   \* where main() is
    options,              \* the parsed options and whether positional args were given
    fobj,                 \* the unread lines of the open word list file
    kept,                 \* the words read_word_list's comprehension collected
    word_list,            \* main's word_list, once read_word_list returned
    words,                \* generate: the words chosen
    split_words,          \* generate: the words being given special characters
    with_specials,        \* generate: the words with special characters
    rounds,               \* generate: iterations of the specials loop done
    ijk,                  \* generate: the indexes i, j, k of the last iteration
    result,               \* generate_grid: the rows appended
    longest_word_length,  \* generate_grid: the longest word seen
    calls,                \* what each call of generate returned
    draws,                \* the random draws made
    stdout,               \* the lines printed
    exc,                  \* the exception raised in the run, "" for none
    traceback,            \* an uncaught exception's traceback was printed
    status                \* the exit status, -1 while running

vars == << pc, options, fobj, kept, word_list, words, split_words, with_specials,
           rounds, ijk, result, longest_word_length, calls, draws, stdout, exc,
           traceback, status >>

genVars == << words, split_words, with_specials, rounds, ijk >>
gridVars == << result, longest_word_length, calls >>
readVars == << fobj, kept, word_list >>

NoOptions == [words |-> 0, special |-> 0, grid |-> FALSE, file |-> FALSE, args |-> FALSE]

Init ==
    /\ pc = "parse_args"
    /\ options = NoOptions
    /\ fobj = <<>>
    /\ kept = <<>>
    /\ word_list = <<>>
    /\ words = <<>>
    /\ split_words = <<>>
    /\ with_specials = <<>>
    /\ rounds = 0
    /\ ijk = [i |-> 0, j |-> 0, k |-> 0]
    /\ result = <<>>
    /\ longest_word_length = 0
    /\ calls = <<>>
    /\ draws = 0
    /\ stdout = <<>>
    /\ exc = ""
    /\ traceback = FALSE
    /\ status = -1

\* sys.exit(code) after printing the lines given.
Exit(lines, code) ==
    /\ stdout' = stdout \o lines
    /\ status' = code
    /\ pc' = "exit"
    /\ UNCHANGED traceback

\* An exception nothing catches: the interpreter prints the traceback and
\* exits with status 1.  Nothing is written to stdout.
Uncaught(name) ==
    /\ exc' = name
    /\ traceback' = TRUE
    /\ status' = 1
    /\ pc' = "exit"
    /\ UNCHANGED stdout

\* ----------------------------------------------------------- main: options

InvalidOptions(o) == o.args \/ o.words < 1 \/ o.special < 0

\* The exit status of the print_help() path.
HelpStatus == 0

\* parser.parse_args() and the check that follows it.
ParseArgs ==
    /\ pc = "parse_args"
    /\ \E n \in 0..MaxWords, m \in (-1)..MaxSpecials, g \in BOOLEAN,
          f \in BOOLEAN, a \in BOOLEAN :
          LET o == [words |-> n, special |-> m, grid |-> g, file |-> f, args |-> a] IN
          /\ options' = o
          /\ IF InvalidOptions(o)
             THEN /\ Exit(<< [kind |-> "help", text |-> "usage"] >>, HelpStatus)
                  /\ UNCHANGED exc
             ELSE /\ pc' = "open"
                  /\ UNCHANGED << stdout, exc, traceback, status >>
    /\ UNCHANGED << readVars, genVars, gridVars, draws >>

\* ------------------------------------------------------ main: the word list

\* --file: open(options.file); an IOError prints an error and exits with 1.
OpenFile ==
    /\ pc = "open"
    /\ options.file
    /\ \/ /\ \E f \in Files : fobj' = f
          /\ pc' = "read"
          /\ UNCHANGED << stdout, exc, traceback, status >>
       \/ /\ Exit(<< [kind |-> "error", text |-> "unable to open word list file"] >>, 1)
          /\ exc' = "IOError"
          /\ UNCHANGED fobj
    /\ UNCHANGED << options, kept, word_list, genVars, gridVars, draws >>

\* get_word_list up to its call of read_word_list: the cached list is opened,
\* or downloaded and opened; a download that fails raises IOError.
GetWordList ==
    /\ pc = "open"
    /\ ~options.file
    /\ \/ /\ \E f \in Files : fobj' = f
          /\ pc' = "read"
          /\ UNCHANGED << stdout, exc, traceback, status >>
       \/ /\ Uncaught("IOError")
          /\ UNCHANGED fobj
    /\ UNCHANGED << options, kept, word_list, genVars, gridVars, draws >>

\* read_word_list(fobj) and what its caller does with the outcome: main
\* catches ValueError on the --file path only.
ReadWordList ==
    /\ pc = "read"
    /\ LET r == read_word_list(fobj) IN
       /\ fobj' = r.rest
       /\ kept' = r.kept
       /\ IF r.exc = ""
          THEN /\ word_list' = r.kept
               /\ pc' = "choice"
               /\ UNCHANGED << stdout, exc, traceback, status >>
          ELSE /\ UNCHANGED word_list
               /\ IF r.exc = "ValueError" /\ options.file
                  THEN /\ Exit(<< [kind |-> "error", text |-> "invalid word list format"] >>, 1)
                       /\ exc' = r.exc
                  ELSE Uncaught(r.exc)
    /\ UNCHANGED << options, genVars, gridVars, draws >>


\* ---------------------------------------------------------------- generate

\* The outcomes explored for a draw of SystemRandom from n > 0 values, the
\* run having made d draws: rnd.randrange(n) and the index rnd.choice takes.
randrange(n, d) == IF d < MaxEntropy THEN 0..(n - 1) ELSE {0}

\* Mutation: range(words + 1), one choice too many.
SelectionDoneOneMore(ws, n) == Len(ws) = n + 1

\* for _ in range(words): the comprehension of line 79 has made its last choice.
SelectionDone(ws, n) == Len(ws) = n

\* Mutation: range(specials + 1), one replacement too many.
RoundsDoneOneMore(r, m) == r = m + 1

\* for _ in range(specials): the loop of line 87 has made its last iteration.
RoundsDone(r, m) == r = m

\* Mutation: a bound of the draw of k that is longer than the alphabet.
KBoundLonger == Len(SPECIAL_CHARS) + 2

\* The bound of the draw of k.
KBound == Len(SPECIAL_CHARS)

\* Mutation: the character is inserted before position j, not written over it.
SubstituteInsert(sw, i, j, c) ==
    [sw EXCEPT ![i + 1] = SubSeq(@, 1, j) \o << c >> \o SubSeq(@, j + 1, Len(@))]

\* split_words[i][j] = c
Substitute(sw, i, j, c) == [sw EXCEPT ![i + 1][j + 1] = c]

\* One choice of words = [ rnd.choice(word_list) for _ in range(words) ];
\* after the last one, "if specials:" and the branch taken.
Choice ==
    /\ pc = "choice"
    /\ \E c \in randrange(Len(word_list), draws) :
          LET ws == Append(words, word_list[c + 1]) IN
          /\ words' = ws
          /\ draws' = draws + 1
          /\ IF ~SelectionDone(ws, options.words)
             THEN /\ pc' = "choice"
                  /\ UNCHANGED << split_words, with_specials >>
             ELSE IF options.special # 0
                  THEN /\ split_words' = ws
                       /\ pc' = "rounds"
                       /\ UNCHANGED with_specials
                  ELSE /\ with_specials' = ws
                       /\ pc' = "return"
                       /\ UNCHANGED split_words
    /\ UNCHANGED << options, readVars, rounds, ijk, gridVars, stdout, exc,
                    traceback, status >>

\* One iteration of the specials loop: the draws of i, j and k and the
\* replacement; after the last one, with_specials is joined.  randrange(0)
\* raises ValueError and an index past the end of SPECIAL_CHARS raises
\* IndexError; main catches neither.
Round ==
    /\ pc = "rounds"
    /\ \E i \in randrange(Len(split_words), draws) :
          LET n == Len(split_words[i + 1]) IN
          IF n = 0
          THEN /\ Uncaught("ValueError")
               /\ ijk' = [ijk EXCEPT !.i = i]
               /\ draws' = draws + 1
               /\ UNCHANGED << split_words, with_specials, rounds >>
          ELSE \E j \in randrange(n, draws + 1), k \in randrange(KBound, draws + 2) :
                  /\ ijk' = [i |-> i, j |-> j, k |-> k]
                  /\ draws' = draws + 3
                  /\ IF k >= Len(SPECIAL_CHARS)
                     THEN /\ Uncaught("IndexError")
                          /\ UNCHANGED << split_words, with_specials, rounds >>
                     ELSE LET sw == Substitute(split_words, i, j, SPECIAL_CHARS[k + 1]) IN
                          /\ split_words' = sw
                          /\ rounds' = rounds + 1
                          /\ UNCHANGED << stdout, exc, traceback, status >>
                          /\ IF RoundsDone(rounds + 1, options.special)
                             THEN /\ with_specials' = sw
                                  /\ pc' = "return"
                             ELSE /\ pc' = "rounds"
                                  /\ UNCHANGED with_specials
    /\ UNCHANGED << options, readVars, words, gridVars >>

\* ----------------------------------------------------------- generate_grid

\* max(len(x) for x in word_row)
RECURSIVE MaxLen(_)
MaxLen(row) == IF row = <<>> THEN 0 ELSE Max(Len(Head(row)), MaxLen(Tail(row)))

\* Mutation: the row without special characters is appended whatever specials is.
GridRowPlain(word_row, specials_row, specials) == word_row

\* The row generate_grid appends for a call of generate.
GridRow(word_row, specials_row, specials) ==
    IF specials # 0 THEN specials_row ELSE word_row

\* Mutation: "return result, longest_word_length" indented into the loop.
GridDoneFirstRow(rows, n) == Len(rows) >= 1

\* for _ in range(words): the loop of generate_grid has made its last iteration.
GridDone(rows, n) == Len(rows) = n

\* generate returns words, with_specials.  In main the pair is printed next;
\* in generate_grid the row is appended, the longest word length is updated
\* and generate is called again until the grid has its rows.
Return ==
    /\ pc = "return"
    /\ calls' = Append(calls, [words |-> words, with_specials |-> with_specials])
    /\ IF ~options.grid
       THEN /\ pc' = "print"
            /\ UNCHANGED << genVars, result, longest_word_length >>
       ELSE LET rows == Append(result, GridRow(words, with_specials, options.special)) IN
            /\ result' = rows
            /\ longest_word_length' = Max(MaxLen(words), longest_word_length)
            /\ IF GridDone(rows, options.words)
               THEN /\ pc' = "print"
                    /\ UNCHANGED genVars
               ELSE /\ pc' = "choice"
                    /\ words' = <<>>
                    /\ split_words' = <<>>
                    /\ with_specials' = <<>>
                    /\ rounds' = 0
                    /\ UNCHANGED ijk
    /\ UNCHANGED << options, readVars, draws, stdout, exc, traceback, status >>

\* ------------------------------------------------------------- main: output

\* The prints of the single-line mode, then the end of main.
PrintPassphrase ==
    /\ pc = "print"
    /\ ~options.grid
    /\ Exit(<< [kind |-> "passphrase", text |-> words] >>
            \o (IF options.special > 0
                THEN << [kind |-> "with specials", text |-> with_specials] >>
                ELSE <<>>), 0)
    /\ UNCHANGED << options, readVars, genVars, gridVars, draws, exc >>

\* The row printed for a row of the grid.
GridLine(word_row, length) == [x \in DOMAIN word_row |-> ljust(word_row[x], length)]

\* One iteration of "for word_row in words: print ..."; after the last row
\* main ends.
PrintRow ==
    /\ pc = "print"
    /\ options.grid
    /\ LET out == Append(stdout, [kind |-> "row",
                    text |-> GridLine(result[Len(stdout) + 1], longest_word_length)]) IN
       /\ stdout' = out
       /\ IF Len(out) = Len(result)
          THEN /\ pc' = "exit"
               /\ status' = 0
          ELSE /\ pc' = "print"
               /\ UNCHANGED status
    /\ UNCHANGED << options, readVars, genVars, gridVars, draws, exc, traceback >>

Next ==
    \/ ParseArgs
    \/ OpenFile
    \/ GetWordList
    \/ ReadWordList
    \/ Choice
    \/ Round
    \/ Return
    \/ PrintPassphrase
    \/ PrintRow

Spec == Init /\ [][Next]_vars


\* ----------------------------------------------------------------- claims

\* The positions (word, character) at which two rows of equal shape differ.
DiffPositions(a, b) ==
    UNION {{<< w, p >> : p \in {q \in DOMAIN a[w] : a[w][q] # b[w][q]}} : w \in DOMAIN a}

\* Two rows have as many words, and word by word as many characters.
SameShape(a, b) ==
    /\ Len(a) = Len(b)
    /\ \A w \in DOMAIN a : Len(a[w]) = Len(b[w])

\* All the words of the rows of a grid, in one row.
RECURSIVE Flatten(_)
Flatten(rows) == IF rows = <<>> THEN <<>> ELSE Head(rows) \o Flatten(Tail(rows))

\* A line of a passphrase or of a grid has been printed.
PassphrasePrinted ==
    \E x \in DOMAIN stdout : stdout[x].kind \in {"passphrase", "with specials", "row"}

\* The calls of generate a whole request makes, and the draws of one call.
CallsOfRequest == IF options.grid THEN options.words ELSE 1
DrawsOfCall == options.words + 3 * options.special

\* read_word_list has been called and has ended, by returning or by raising.
ReadEnded ==
    \/ pc \in {"choice", "rounds", "return", "print"}
    \/ pc = "exit" /\ ~InvalidOptions(options) /\ exc # "IOError"

\* C1: generate returns an original word sequence of exactly N entries, each
\* an element of the word list; this holds from the end of the selection on
\* and of what every call returned.
C1_WordsFromList ==
    /\ pc \in {"rounds", "return"} =>
          /\ Len(words) = options.words
          /\ Range(words) \subseteq Range(word_list)
    /\ \A c \in DOMAIN calls :
          /\ Len(calls[c].words) = options.words
          /\ Range(calls[c].words) \subseteq Range(word_list)

\* C1 witness: a call returned two words, the same word twice.
C1_Witness ==
    /\ calls # <<>>
    /\ options.words = 2
    /\ Len(calls[1].words) = 2
    /\ calls[1].words[1] = calls[1].words[2]
    /\ word_list[1] # word_list[2]

\* C2: after all M rounds the with-specials sequence returned differs from
\* the original sequence in at most M character positions, every other
\* character being the original's, and with M = 0 the two are equal.
C2_AtMostMDiffer ==
    \A c \in DOMAIN calls :
        /\ SameShape(calls[c].words, calls[c].with_specials)
        /\ Cardinality(DiffPositions(calls[c].words, calls[c].with_specials))
              <= options.special
        /\ options.special = 0 => calls[c].with_specials = calls[c].words

\* C2 witness: two rounds changed two positions of one returned sequence.
C2_Witness ==
    /\ options.special = 2
    /\ calls # <<>>
    /\ SameShape(calls[1].words, calls[1].with_specials)
    /\ Cardinality(DiffPositions(calls[1].words, calls[1].with_specials)) = 2

\* C3 as claimed: whenever the number of lines read_word_list keeps is not
\* the required count, it raises the invalid-word-list-format error
\* (ValueError), returns no list, and nothing is generated or printed.
C3_Claim ==
    (ReadEnded /\ WrongCount(kept)) =>
        /\ exc = "ValueError"
        /\ word_list = <<>>
        /\ draws = 0
        /\ ~PassphrasePrinted

\* C4 as claimed: a run ended by an invalid word list format, an unopenable
\* word list file or invalid parameters has printed a diagnostic and exits
\* with a non-zero status.
C4_Claim ==
    (pc = "exit" /\ (InvalidOptions(options) \/ (exc \in {"ValueError", "IOError"} /\ draws = 0))) =>
        /\ status # 0
        /\ traceback \/ stdout # <<>>

\* C5: no passphrase line or grid row is printed before every word selection
\* and every substitution round of the whole request has been made, and a
\* run that an exception ended has printed none.
C5_AllOrNothing ==
    /\ PassphrasePrinted =>
          /\ draws = CallsOfRequest * DrawsOfCall
          /\ Len(calls) = CallsOfRequest
    /\ exc # "" => ~PassphrasePrinted

\* C5 witness: a grid with special characters has been printed whole.
C5_Witness ==
    /\ options.grid
    /\ options.words = 2
    /\ options.special > 0
    /\ pc = "exit"
    /\ Len(stdout) = 2
    /\ stdout[2].kind = "row"

\* C6: generate_grid has called generate exactly N times when it returns, each
\* call with its own N selections and M rounds, and returns N rows of N
\* words, in the order of the calls: the with-specials sequence of the call
\* when M > 0, its original sequence when M = 0.
C6_GridRows ==
    (options.grid /\ pc = "print") =>
        /\ Len(calls) = options.words
        /\ draws = options.words * DrawsOfCall
        /\ Len(result) = options.words
        /\ \A r \in DOMAIN result :
              /\ Len(result[r]) = options.words
              /\ r \in DOMAIN calls
              /\ result[r] = (IF options.special > 0
                              THEN calls[r].with_specials
                              ELSE calls[r].words)

\* C6 witness: generate_grid returned two different rows with special characters.
C6_Witness ==
    /\ options.grid
    /\ pc = "print"
    /\ options.words = 2
    /\ options.special > 0
    /\ Len(result) = 2
    /\ result[1] # result[2]
    /\ result[1] # calls[1].words

\* A line as the word list format describes it: five digits, one whitespace
\* character, then the word; and the words of the lines of that form.
ClaimedLine(line) ==
    LET body == rstrip(line) IN
    /\ Len(body) > 6
    /\ isdigit(Slice(body, 0, 5))
    /\ isspace(body[6])

RECURSIVE ClaimedKept(_)
ClaimedKept(lines) ==
    IF lines = <<>> THEN <<>>
    ELSE IF ClaimedLine(Head(lines))
         THEN << rstrip(Slice(Head(lines), 6, Len(Head(lines)))) >> \o ClaimedKept(Tail(lines))
         ELSE ClaimedKept(Tail(lines))

\* C7 as claimed: read_word_list keeps exactly the lines made of five digits,
\* one whitespace character and the word, in order and without the 6-character
\* prefix, and skips every other line without raising any error but that of
\* the wrong count.
C7_Claim ==
    [][pc = "read" => /\ exc' \in {"", "ValueError"}
                      /\ kept' = ClaimedKept(fobj)]_vars

\* C8: the index k of every round is drawn with the size of the alphabet as
\* its bound, the alphabet is 36 distinct characters, k is a valid index, and
\* every character of a with-specials word that differs from the original
\* is in the alphabet.
C8_AlphabetIndex ==
    /\ Len(SPECIAL_CHARS) = 36
    /\ Cardinality(Range(SPECIAL_CHARS)) = 36
    /\ ijk.k \in 0..(Len(SPECIAL_CHARS) - 1)
    /\ (exc = "IndexError") => draws = 0
    /\ pc = "rounds" =>
          \A d \in DiffPositions(words, split_words) :
              split_words[d[1]][d[2]] \in Range(SPECIAL_CHARS)
    /\ \A c \in DOMAIN calls :
          \A d \in DiffPositions(calls[c].words, calls[c].with_specials) :
              calls[c].with_specials[d[1]][d[2]] \in Range(SPECIAL_CHARS)

\* C8 witness: a round drew the last index and wrote the last character of
\* the alphabet.
C8_Witness ==
    /\ pc = "return"
    /\ ijk.k = Len(SPECIAL_CHARS) - 1
    /\ with_specials[ijk.i + 1][ijk.j + 1] = "9"

\* C9: a with-specials word is as long as the original word at its index,
\* after any number of rounds; and the longest word length generate_grid
\* returns is the greatest length of the words of the rows it returns.
C9_LengthsKept ==
    /\ pc = "rounds" => SameShape(words, split_words)
    /\ \A c \in DOMAIN calls : SameShape(calls[c].words, calls[c].with_specials)
    /\ (options.grid /\ pc = "print") => longest_word_length = MaxLen(Flatten(result))

\* C9 witness: generate_grid returned rows with special characters whose
\* longest words differ in length.
C9_Witness ==
    /\ options.grid
    /\ pc = "print"
    /\ options.special > 0
    /\ Len(result) = 2
    /\ MaxLen(result[1]) # MaxLen(result[2])
    /\ longest_word_length = 2

\* C10 as claimed: with a word list read_word_list accepted and options main
\* let through, every draw has a positive bound, so that generate raises
\* nothing and a run that ends has made all its selections and rounds.
C10_Claim ==
    word_list # <<>> =>
        /\ exc = ""
        /\ pc = "exit" => draws = CallsOfRequest * DrawsOfCall

=============================================================================
